---- MODULE Spec2Model ----
(***************************************************************************)
(* Model of blixt/go-llms: the conversation engine (llms/llm.go) driving   *)
(* the two vendor stream decoders (openai/openai.go and the anthropic      *)
(* decoder).  One chat call runs an outer goroutine (the step loop) and,   *)
(* per step, an inner goroutine that ranges over the decoder's statuses.   *)
(***************************************************************************)
EXTENDS Integers, Sequences, FiniteSets, TLC

\* ------------------------------------------------------------------ bounds
MaxChats == 2
MaxEvents == 2
MaxToolStatus == 1
MaxRecords == 4

Chats == 1..MaxChats

\* ------------------------------------------------------- small input sets
\* Text fragments a vendor record can carry.
Texts == {<<"x">>}
\* Argument fragments of a tool call delta.
ArgFrags == {<<"{">>}
\* Tool call identifiers the backend may assign ("" = none assigned).
CallIDs == {"", "a"}
\* Tool names the backend may ask for; "ghost" is not in the registry.
ToolNames == {"search", "ghost"}
\* The tool registry of the engine (llm.go:19).
Toolbox == {"search"}
\* Usage reports a vendor record can carry.
UsageReports == {[inTok |-> 1, outTok |-> 2]}
\* Provider configurations (vendor and model identifier).
Providers ==
    { [vendor |-> "openai", model |-> <<"gpt-4o">>],
      [vendor |-> "anthropic", model |-> <<"claude-3-opus">>],
      [vendor |-> "openai", model |-> <<"my-model">>] }

NoErr == "nil"

\* ------------------------------------------------------------ collaborators
\* content.Content.Append: append a text fragment to the assembled content.
ContentAppend(c, t) == c \o t

\* tools.Toolbox.Get: lookup(name) -> tool | absent.
ToolboxGet(name) == IF name \in Toolbox THEN name ELSE "absent"

\* ------------------------------------------------------------------ pricing
\* Prices per million tokens, in cents (openai.go:136-201, a part of it).  A
\* model identifier is the sequence of its parts, so "gpt-4o" is a prefix of
\* "gpt-4o-mini" here as it is there.
OpenAIPricing ==
    [k \in {<<"gpt-4o">>, <<"gpt-4o", "-mini">>} |->
        IF k = <<"gpt-4o">> THEN [inputCost |-> 250, outputCost |-> 1000]
                            ELSE [inputCost |-> 15, outputCost |-> 60]]

\* Prices per million tokens, in cents (anthropic modelPricing).
AnthropicPricing ==
    [k \in {<<"claude-3-opus">>, <<"claude-3-haiku">>} |->
        IF k = <<"claude-3-opus">> THEN [inputCost |-> 1500, outputCost |-> 7500]
                                   ELSE [inputCost |-> 25, outputCost |-> 125]]

IsPrefixOf(p, s) == Len(p) <= Len(s) /\ SubSeq(s, 1, Len(p)) = p

Price(p, s) == s.inTok * p.inputCost + s.outTok * p.outputCost

\* Mutant: a model that is not in the table is charged the price of gpt-4o.
OpenAICostUSD_DefaultPrice(s) == Price(OpenAIPricing[<<"gpt-4o">>], s)

\* openai Stream.CostUSD, in units of 1e-8 USD: exact key or zero.
OpenAICostUSD(s) ==
    IF s.model \in DOMAIN OpenAIPricing
    THEN Price(OpenAIPricing[s.model], s)
    ELSE 0

\* anthropic Stream.CostUSD: exact key, else some key that prefixes the model.
AnthropicCostUSD(s) ==
    IF s.model \in DOMAIN AnthropicPricing
    THEN Price(AnthropicPricing[s.model], s)
    ELSE IF \E k \in DOMAIN AnthropicPricing : IsPrefixOf(k, s.model)
         THEN Price(AnthropicPricing[CHOOSE k \in DOMAIN AnthropicPricing :
                                        IsPrefixOf(k, s.model)], s)
         ELSE 0

CostUSD(s) ==
    IF s.vendor = "openai" THEN OpenAICostUSD(s) ELSE AnthropicCostUSD(s)

\* ----------------------------------------------------------------- decoders
\* A fresh decoder as Generate returns it (&Stream{model: ..., stream: ...}),
\* or one that only carries a setup error (&Stream{err: ...}).
NewStream(p, e) ==
    [vendor |-> p.vendor, model |-> p.model, err |-> e,
     role |-> "", content |-> <<>>, toolCalls |-> <<>>,
     lastText |-> <<>>, inTok |-> 0, outTok |-> 0]

\* Stream.Message
Message(s) ==
    [role |-> s.role, content |-> s.content, toolCalls |-> s.toolCalls,
     toolCallID |-> ""]

\* Stream.ToolCall: the last tool call of the message, or the zero value.
ToolCall(s) ==
    IF Len(s.toolCalls) = 0
    THEN [id |-> "", name |-> "", args |-> <<>>]
    ELSE s.toolCalls[Len(s.toolCalls)]

\* The result of running the decoder up to its next yield (y # "none"), to the
\* next scanner.Scan() (k = "scan"), to its return (k = "ret") or to a panic.
Out(s, y, k) == [s |-> s, y |-> y, k |-> k, panic |-> "none"]
Panic(s, why) == [s |-> s, y |-> "none", k |-> "ret", panic |-> why]

AppendArgs(calls, i, frag) ==
    [calls EXCEPT ![i] = [@ EXCEPT !.args = @ \o frag]]

\* Records of the OpenAI stream, one per line.
OpenAIEvents ==
    { [type |-> "malformed"] }
    \cup { [type |-> "usage", usage |-> u] : u \in UsageReports }
    \cup { [type |-> "chunk", role |-> r, content |-> t, tools |-> <<>>] :
              r \in {"assistant"}, t \in Texts }
    \cup { e \in { [type |-> "chunk", role |-> "", content |-> <<>>,
            tools |-> <<[index |-> i, id |-> id, name |-> n, args |-> <<>>]>>] :
              i \in 0..1, id \in CallIDs, n \in ToolNames } :
              e.tools[1].name = "search"
                 \/ (e.tools[1].index = 0 /\ e.tools[1].id = "") }
    \cup { [type |-> "chunk", role |-> "", content |-> t,
            tools |-> <<[index |-> i, id |-> "", name |-> "", args |-> a]>>] :
              i \in 0..1, a \in ArgFrags, t \in {<<>>} }
    \cup { [type |-> "chunk", role |-> "", content |-> <<>>,
            tools |-> <<[index |-> 0, id |-> "a", name |-> "search", args |-> <<>>],
                        [index |-> 1, id |-> "b", name |-> "search", args |-> <<>>]>>] }

\* Mutant: no ToolCallReady is synthesized at the end of the stream.
OpenAIEnd_NoFinalReady(s) == Out(s, "none", "ret")

\* openai Stream.Iter, after the loop (openai.go:281-285).
OpenAIEnd(s) ==
    IF Len(s.toolCalls) > 0 THEN Out(s, "ToolCallReady", "ret")
                            ELSE Out(s, "none", "ret")

\* openai.go:275-278: open the new tool call and yield ToolCallBegin.
OpenAIBegin(s, e) ==
    LET d == e.tools[1] IN
    Out([s EXCEPT !.toolCalls =
            Append(@, [id |-> d.id, name |-> d.name, args |-> d.args])],
        "ToolCallBegin", "scan")

\* openai.go:254-279: the tool call delta of a chunk.
OpenAITool(s, e) ==
    IF Len(e.tools) > 1 THEN Panic(s, "more than one tool call in a chunk")
    ELSE IF Len(e.tools) = 0 THEN Out(s, "none", "scan")
    ELSE LET d == e.tools[1] IN
         IF d.index < Len(s.toolCalls)
         THEN IF d.index # Len(s.toolCalls) - 1
              THEN Panic(s, "tool call index mismatch")
              ELSE Out([s EXCEPT !.toolCalls = AppendArgs(@, d.index + 1, d.args)],
                       "ToolCallData", "scan")
         ELSE IF d.index > 0
              THEN Out(s, "ToolCallReady", "begin")
              ELSE OpenAIBegin(s, e)

\* openai.go:225-253: one scanned line up to its first yield.
OpenAIChunk(s, e) ==
    IF e.type = "skip" THEN Out(s, "none", "scan")
    ELSE IF e.type = "malformed"
    THEN OpenAIEnd([s EXCEPT !.err = "error unmarshalling chunk"])
    ELSE IF e.type = "usage"
    THEN Out([s EXCEPT !.inTok = e.usage.inTok, !.outTok = e.usage.outTok],
             "none", "scan")
    ELSE LET s1 == [s EXCEPT !.role = IF e.role # "" THEN e.role ELSE @,
                             !.lastText = e.content]
         IN IF e.content # <<>>
            THEN Out([s1 EXCEPT !.content = ContentAppend(@, e.content)],
                     "Text", "tool")
            ELSE OpenAITool(s1, e)

\* Events of the Anthropic stream, one per data line.
AnthropicEvents ==
    { [type |-> "malformed"], [type |-> "message_stop"],
      [type |-> "content_block_stop"] }
    \cup { [type |-> "message_start", role |-> "assistant", usage |-> u] :
              u \in UsageReports }
    \cup { [type |-> "text_delta", text |-> t] : t \in Texts }
    \cup { [type |-> "input_json_delta", partial |-> a] : a \in ArgFrags }
    \cup { e \in { [type |-> "content_block_start", block |-> "tool_use",
                      id |-> id, name |-> n] : id \in CallIDs, n \in ToolNames } :
              e.name = "search" \/ e.id = "" }
    \cup { [type |-> "content_block_start", block |-> "text",
            id |-> "", name |-> ""] }
    \cup { [type |-> "message_delta", stopReason |-> r, usage |-> u] :
              r \in {"end_turn", "max_tokens"},
              u \in UsageReports }

\* anthropic Stream.Iter: one scanned line (the switch on event.Type).
AnthropicEvent(s, e) ==
    CASE e.type = "malformed" ->
            Out([s EXCEPT !.err = "error unmarshalling event"], "none", "ret")
      [] e.type = "message_start" ->
            Out([s EXCEPT !.role = e.role,
                          !.inTok = @ + e.usage.inTok,
                          !.outTok = @ + e.usage.outTok], "none", "scan")
      [] e.type = "text_delta" ->
            Out([s EXCEPT !.lastText = e.text,
                          !.content = ContentAppend(@, e.text)], "Text", "scan")
      [] e.type = "input_json_delta" ->
            IF Len(s.toolCalls) = 0
            THEN Panic(s, "index out of range")
            ELSE Out([s EXCEPT !.toolCalls =
                         AppendArgs(@, Len(s.toolCalls), e.partial)],
                     "ToolCallData", "scan")
      [] e.type = "content_block_start" ->
            IF e.block = "tool_use"
            THEN Out([s EXCEPT !.toolCalls =
                         Append(@, [id |-> e.id, name |-> e.name, args |-> <<>>])],
                     "ToolCallBegin", "scan")
            ELSE Out(s, "none", "scan")
      [] e.type = "content_block_stop" ->
            IF Len(s.toolCalls) > 0 THEN Out(s, "ToolCallReady", "scan")
                                    ELSE Out(s, "none", "scan")
      [] e.type = "message_delta" ->
            LET s1 == [s EXCEPT !.inTok = @ + e.usage.inTok,
                                !.outTok = @ + e.usage.outTok]
            IN IF e.stopReason \notin {"", "tool_use", "end_turn"}
               THEN Out([s1 EXCEPT !.err = "unexpected stop reason"],
                        "none", "ret")
               ELSE Out(s1, "none", "scan")
      [] e.type = "message_stop" -> Out(s, "none", "ret")

Events(s) == IF s.vendor = "openai" THEN OpenAIEvents ELSE AnthropicEvents

\* Stream.Iter: the decoder scans record e.
Scan(s, e) == IF s.vendor = "openai" THEN OpenAIChunk(s, e) ELSE AnthropicEvent(s, e)

\* Stream.Iter: the scanner reports the end of the stream.
ScanEOF(s) == IF s.vendor = "openai" THEN OpenAIEnd(s) ELSE Out(s, "none", "ret")

\* Stream.Iter: yield returned true; the decoder goes on from continuation k
\* with the record e it was working on.
Resume(s, k, e) ==
    CASE k = "tool" -> OpenAITool(s, e)
      [] k = "begin" -> OpenAIBegin(s, e)
      [] k = "ret" -> Out(s, "none", "ret")
      [] OTHER -> Out(s, "none", "scan")

\* ------------------------------------------------------------------- engine
VARIABLES
    provider,     \* LLM.provider: its vendor and model identifier
    messages,     \* LLM.messages: the conversation history
    totalCost,    \* LLM.totalCost, in units of 1e-8 USD
    chatNo,       \* number of chat calls made so far; the current one
    cancelled,    \* ctx.Done() of the current chat call is closed
    closed,       \* updateChan of the current chat call is closed
    updates,      \* the Updates the caller received on the current updateChan
    opc,          \* position of the outer goroutine of the current chat call
    oerr,         \* the error the outer goroutine publishes
    inner,        \* inner[c]: the inner goroutine of the latest step of chat c
    stream,       \* stream[c]: the decoder of the latest step of chat c
    nEvents,      \* number of vendor records scanned so far
    crashed,      \* "none", or the panic that aborted the process
    preCancelled, \* history: ctx was already cancelled when chat was invoked
    nGen,         \* history: Provider.Generate calls of the current chat call
    stepsDone,    \* history: steps of the current chat call that returned nil
    lastBatch,    \* history: toolMessages of the last such step, as collected
    stepHist,     \* history: LLM.messages when the latest step began
    stepCost,     \* history: LLM.totalCost when the latest step began
    nClose,       \* history: number of times the current updateChan was closed
    stepMark,     \* history: Len(updates) when the latest step began
    lastUsage,    \* history: Usage() of the decoder of the last step that returned nil
    dec,          \* the decoder iterated on its own (DecoderSpec)
    iter,         \* position of dec's Iter and of its consumer
    obs           \* history: what the consumer of dec has observed

hist == <<preCancelled, nGen, stepsDone, lastBatch, stepHist, stepCost, nClose,
          stepMark, lastUsage>>

evars == <<provider, messages, totalCost, chatNo, cancelled, closed, updates,
           opc, oerr, inner, stream, nEvents, crashed, hist>>

dvars == <<dec, iter, obs>>

vars == <<evars, dvars>>

NoCall == [id |-> "", name |-> "", args |-> <<>>]

IdleInner ==
    [pc |-> "none", status |-> "none", k |-> "scan", chunk |-> [type |-> "skip"],
     toolMessages |-> <<>>, streamErr |-> NoErr, call |-> NoCall,
     nStatus |-> 0, img |-> FALSE]

\* The user turn that ChatUsingContent appends (llm.go:62-65).
UserMessage ==
    [role |-> "user", content |-> <<"u">>, toolCalls |-> <<>>, toolCallID |-> ""]

\* The Updates of llms.Update.
TextUpdate(t) == [kind |-> "Text", text |-> t, tool |-> ""]
ToolStartUpdate(t) == [kind |-> "ToolStart", text |-> <<>>, tool |-> t]
ToolStatusUpdate(t) == [kind |-> "ToolStatus", text |-> <<>>, tool |-> t]
ToolDoneUpdate(t) == [kind |-> "ToolDone", text |-> <<>>, tool |-> t]
ErrorUpdate(e) == [kind |-> "Error", text |-> <<e>>, tool |-> ""]

\* Mutant: the name is not used when the id is empty.
CallID_IdOnly(tc) == tc.id

\* llm.go:225-228: the correlation key of a tool result.
CallID(tc) == IF tc.id = "" THEN tc.name ELSE tc.id

\* llm.go:230-252: the messages runToolCall returns for a result.
RunToolCallMessages(tc, img) ==
    LET toolMsg == [role |-> "tool", content |-> <<"result">>,
                    toolCalls |-> <<>>, toolCallID |-> CallID(tc)]
        imgMsg == [role |-> "user", content |-> <<"Here is", "image">>,
                   toolCalls |-> <<>>, toolCallID |-> ""]
    IN IF img THEN <<toolMsg, imgMsg>> ELSE <<toolMsg>>

\* Mutant: the comparison puts the non-tool messages first.
RoleCmp_Reversed(a, b) ==
    IF a.role = "tool" /\ b.role # "tool" THEN 1
    ELSE IF a.role # "tool" /\ b.role = "tool" THEN -1
    ELSE 0

\* llm.go:190-198: the comparison function of the stable sort.
RoleCmp(a, b) ==
    IF a.role = "tool" /\ b.role # "tool" THEN -1
    ELSE IF a.role # "tool" /\ b.role = "tool" THEN 1
    ELSE 0

Swap(d, i, j) == [d EXCEPT ![i] = d[j], ![j] = d[i]]

\* slices.SortStableFunc sorts up to 20 elements by insertion: element j moves
\* down while it compares less than its predecessor.
RECURSIVE SiftDown(_, _)
SiftDown(d, j) ==
    IF j > 1 /\ RoleCmp(d[j], d[j - 1]) < 0
    THEN SiftDown(Swap(d, j, j - 1), j - 1)
    ELSE d

RECURSIVE InsertionSort(_, _)
InsertionSort(d, i) ==
    IF i > Len(d) THEN d ELSE InsertionSort(SiftDown(d, i), i + 1)

SortStableFunc(d) == InsertionSort(d, 2)

\* Mutant: a single tool message does not ask for another step.
ShouldContinue_MoreThanOne(toolMessages) == Len(toolMessages) > 1

\* llm.go:204: the step asks for another step.
ShouldContinue(toolMessages) == Len(toolMessages) > 0

\* Mutant: the step's messages replace the history instead of extending it.
CommitStep_Replaces(h, s, toolMessages) ==
    <<Message(s)>> \o SortStableFunc(toolMessages)

\* llm.go:188-199: the history after a step that ended without error.
CommitStep(h, s, toolMessages) ==
    Append(h, Message(s)) \o SortStableFunc(toolMessages)

NumToolRuns(toolMessages) ==
    Len(SelectSeq(toolMessages, LAMBDA m : m.role = "tool"))

Running == crashed = "none"

\* A chat call returns only by closing its channel, and the caller starts the
\* next call after that; the one way an inner goroutine outlives its chat call
\* is that cancellation won the select of step (llm.go:179).  So for an
\* earlier chat call the channel is closed and the ctx is cancelled.
Closed(c) == c < chatNo \/ closed
Cancelled(c) == c < chatNo \/ cancelled

\* An inner goroutine blocked for ever on done <- true, nobody will read what
\* it holds.
Leaked == [IdleInner EXCEPT !.pc = "done"]

NoUsage == [inTok |-> 0, outTok |-> 0]

\* Stream.Usage
Usage(s) == [inTok |-> s.inTok, outTok |-> s.outTok]

\* Mutant: Text returns all the text so far instead of the last fragment.
Text_Cumulative(s) == s.content

\* Stream.Text: the fragment of the most recent Text status.
Text(s) == s.lastText

\* The consumer of dec before Iter is called, and what it has observed.
IdleIter == [pc |-> "idle", status |-> "none", k |-> "scan", chunk |-> [type |-> "skip"]]

NoObs ==
    [texts |-> <<>>, frags |-> <<>>, reports |-> NoUsage, nRecords |-> 0,
     errSeen |-> FALSE, abnormal |-> FALSE, statuses |-> <<>>,
     skipped |-> FALSE, broke |-> FALSE]

\* llms.New (llm.go:30-39): an engine with its provider and no history.
EngineStart(ps) ==
    /\ provider \in ps
    /\ messages = <<>>
    /\ totalCost = 0
    /\ chatNo = 0
    /\ cancelled = FALSE
    /\ closed = FALSE
    /\ updates = <<>>
    /\ opc = "idle"
    /\ oerr = NoErr
    /\ inner = [c \in Chats |-> IdleInner]
    /\ stream = [c \in Chats |-> NewStream(provider, NoErr)]
    /\ nEvents = 0
    /\ crashed = "none"
    /\ preCancelled = FALSE
    /\ nGen = 0
    /\ stepsDone = 0
    /\ lastBatch = <<>>
    /\ stepHist = <<>>
    /\ stepCost = 0
    /\ nClose = 0
    /\ stepMark = 0
    /\ lastUsage = NoUsage

Init ==
    /\ EngineStart(Providers)
    /\ dec = NewStream(provider, NoErr)
    /\ iter = IdleIter
    /\ obs = NoObs

\* ---------------------------------------------------------- outer goroutine
\* ChatUsingContent (llm.go:61-91): append the user turn, make the channel and
\* start the outer goroutine.  The caller's ctx may already be cancelled.
Chat ==
    /\ Running /\ opc = "idle" /\ chatNo < MaxChats
    /\ \E pre \in BOOLEAN : cancelled' = pre /\ preCancelled' = pre
    /\ chatNo' = chatNo + 1
    /\ messages' = Append(messages, UserMessage)
    /\ closed' = FALSE
    /\ updates' = <<>>
    /\ opc' = "loop"
    /\ oerr' = NoErr
    /\ nGen' = 0 /\ stepsDone' = 0 /\ lastBatch' = <<>> /\ nClose' = 0
    /\ stepMark' = 0 /\ lastUsage' = NoUsage
    /\ stepHist' = Append(messages, UserMessage)
    /\ stepCost' = totalCost
    /\ inner' = [c \in Chats |->
                    IF c <= chatNo /\ inner[c].pc = "done" THEN Leaked ELSE inner[c]]
    /\ stream' = [c \in Chats |->
                    IF c <= chatNo /\ inner[c].pc \in {"done", "exit", "none"}
                    THEN NewStream(provider, NoErr) ELSE stream[c]]
    /\ UNCHANGED <<dvars, provider, totalCost, nEvents, crashed>>

\* The caller (or a deadline) cancels the ctx of the current chat call.
Cancel ==
    /\ Running /\ chatNo > 0 /\ ~cancelled
    /\ opc # "idle" \/ inner[chatNo].pc \notin {"none", "done", "exit"}
    /\ cancelled' = TRUE
    /\ UNCHANGED <<dvars, provider, messages, totalCost, chatNo, closed, updates, opc,
                   oerr, inner, stream, nEvents, crashed, hist>>

\* Mutant: the select picks the default case even when ctx is done.
SelectDefault_Always(done) == TRUE

\* llm.go:73-77: a select with a default case takes the default only when no
\* other case is ready.
SelectDefault(done) == ~done

\* Mutant: the error of the returned decoder is not looked at.
SetupFailed_Ignored(s) == FALSE

\* llm.go:119: the decoder that Generate returned carries an error.
SetupFailed(s) == s.err # NoErr

\* llm.go:73-76: the select at the top of the loop finds ctx done.
OuterLoopCancelled ==
    /\ Running /\ opc = "loop" /\ cancelled
    /\ opc' = "sendErr"
    /\ oerr' = "context canceled"
    /\ UNCHANGED <<dvars, provider, messages, totalCost, chatNo, cancelled, closed,
                   updates, inner, stream, nEvents, crashed, hist>>

\* llm.go:77-78 and 109-176: the default case calls step, which calls
\* Provider.Generate; a decoder with an error ends the step, otherwise the
\* inner goroutine is started and the step waits.
OuterStepBegin ==
    /\ Running /\ opc = "loop" /\ SelectDefault(cancelled)
    /\ nGen' = nGen + 1
    /\ stepHist' = messages
    /\ stepCost' = totalCost
    /\ stepMark' = Len(updates)
    /\ \E e \in {NoErr, "error making request"} :
         /\ stream' = [stream EXCEPT ![chatNo] = NewStream(provider, e)]
         /\ IF SetupFailed(NewStream(provider, e))
            THEN /\ opc' = "sendErr"
                 /\ oerr' = "LLM returned error response"
                 /\ inner' = inner
            ELSE /\ opc' = "await"
                 /\ oerr' = oerr
                 /\ inner' = [inner EXCEPT ![chatNo] = [IdleInner EXCEPT !.pc = "scan"]]
    /\ UNCHANGED <<dvars, provider, messages, totalCost, chatNo, cancelled, closed,
                   updates, nEvents, crashed, preCancelled, stepsDone, lastBatch,
                   nClose, lastUsage>>

\* Mutant: on cancellation the step still records the partial turn.
OuterAwaitCancel_KeepsPartial ==
    /\ Running /\ opc = "await" /\ cancelled
    /\ opc' = "sendErr"
    /\ oerr' = "context canceled in step"
    /\ messages' = Append(messages, Message(stream[chatNo]))
    /\ UNCHANGED <<dvars, provider, totalCost, chatNo, cancelled, closed,
                   updates, inner, stream, nEvents, crashed, hist>>

\* llm.go:178-180: the select of step finds ctx done; step returns ctx.Err().
OuterAwaitCancel ==
    /\ Running /\ opc = "await" /\ cancelled
    /\ opc' = "sendErr"
    /\ oerr' = "context canceled in step"
    /\ UNCHANGED <<dvars, provider, messages, totalCost, chatNo, cancelled, closed,
                   updates, inner, stream, nEvents, crashed, hist>>

\* llm.go:181-204: the select of step receives from done; the step either
\* returns the inner goroutine's error or commits the turn.  The inner
\* goroutine ends and the step's locals (stream, toolMessages) go out of scope.
OuterAwaitDone ==
    /\ Running /\ opc = "await" /\ inner[chatNo].pc = "done"
    /\ inner' = [inner EXCEPT ![chatNo] = [IdleInner EXCEPT !.pc = "exit"]]
    /\ stream' = [stream EXCEPT ![chatNo] = NewStream(provider, NoErr)]
    /\ IF inner[chatNo].streamErr # NoErr
       THEN /\ opc' = "sendErr"
            /\ oerr' = "error streaming"
            /\ UNCHANGED <<messages, totalCost, stepsDone, lastBatch, lastUsage>>
       ELSE /\ messages' = CommitStep(messages, stream[chatNo],
                                      inner[chatNo].toolMessages)
            /\ totalCost' = totalCost + CostUSD(stream[chatNo])
            /\ stepsDone' = stepsDone + 1
            /\ lastBatch' = inner[chatNo].toolMessages
            /\ lastUsage' = Usage(stream[chatNo])
            /\ opc' = IF ShouldContinue(inner[chatNo].toolMessages)
                      THEN "loop" ELSE "closing"
            /\ oerr' = oerr
    /\ UNCHANGED <<dvars, provider, chatNo, cancelled, closed, updates, nEvents,
                   crashed, preCancelled, nGen, stepHist, stepCost, nClose,
                   stepMark>>

\* llm.go:75 and 80: the caller receives the ErrorUpdate.
OuterSendError ==
    /\ Running /\ opc = "sendErr"
    /\ updates' = Append(updates, ErrorUpdate(oerr))
    /\ opc' = "closing"
    /\ UNCHANGED <<dvars, provider, messages, totalCost, chatNo, cancelled, closed, oerr,
                   inner, stream, nEvents, crashed, hist>>

\* llm.go:71: the deferred close(updateChan) as the outer goroutine returns.
OuterClose ==
    /\ Running /\ opc = "closing"
    /\ closed' = TRUE
    /\ nClose' = nClose + 1
    /\ opc' = "idle"
    /\ UNCHANGED <<dvars, provider, messages, totalCost, chatNo, cancelled, updates, oerr,
                   inner, stream, nEvents, crashed, preCancelled, nGen, stepsDone,
                   lastBatch, stepHist, stepCost, stepMark, lastUsage>>

\* ---------------------------------------------------------- inner goroutine
\* The inner goroutine of chat c takes what the decoder did next: a panic
\* aborts the process, a yield enters the loop body (llm.go:153-154), the end
\* of the iteration reaches done <- true (llm.go:175).
Advance(in, r, e) ==
    IF r.y # "none"
    THEN [in EXCEPT !.pc = "select", !.status = r.y, !.k = r.k, !.chunk = e]
    ELSE IF r.k = "scan"
    THEN [in EXCEPT !.pc = "scan", !.status = "none", !.k = "scan",
                    !.chunk = IdleInner.chunk]
    ELSE [in EXCEPT !.pc = "done", !.status = "none", !.k = "ret",
                    !.chunk = IdleInner.chunk]

Deliver(c, in, r, e) ==
    /\ stream' = [stream EXCEPT ![c] = r.s]
    /\ crashed' = r.panic
    /\ inner' = [inner EXCEPT ![c] = Advance(in, r, e)]

\* Stream.Iter: scanner.Scan() returns the next record of the response body.
InnerScan(c) ==
    /\ Running /\ inner[c].pc = "scan" /\ nEvents < MaxEvents
    /\ nEvents' = nEvents + 1
    /\ \E e \in Events(stream[c]) : Deliver(c, inner[c], Scan(stream[c], e), e)
    /\ UNCHANGED <<dvars, provider, messages, totalCost, chatNo, cancelled, closed,
                   updates, opc, oerr, hist>>

\* Stream.Iter: scanner.Scan() returns false, the response body has ended.
InnerScanEOF(c) ==
    /\ Running /\ inner[c].pc = "scan"
    /\ Deliver(c, inner[c], ScanEOF(stream[c]), inner[c].chunk)
    /\ UNCHANGED <<dvars, provider, messages, totalCost, chatNo, cancelled, closed,
                   updates, opc, oerr, nEvents, hist>>

\* Mutant: the inner goroutine goes to signal completion first and writes
\* streamErr afterwards.
InnerSelectCancelled_SignalsFirst(c) ==
    /\ Running /\ Cancelled(c)
    /\ \/ /\ inner[c].pc = "select"
          /\ inner' = [inner EXCEPT ![c] = [@ EXCEPT !.pc = "done"]]
       \/ /\ inner[c].pc = "done" /\ inner[c].streamErr = NoErr
          /\ inner' = [inner EXCEPT ![c] = [@ EXCEPT !.streamErr = "context canceled"]]
    /\ UNCHANGED <<dvars, provider, messages, totalCost, chatNo, cancelled, closed,
                   updates, opc, oerr, stream, nEvents, crashed, hist>>

\* llm.go:155-157: the select of the loop body finds ctx done.
InnerSelectCancelled(c) ==
    /\ Running /\ inner[c].pc = "select" /\ Cancelled(c)
    /\ inner' = [inner EXCEPT ![c] =
                    [@ EXCEPT !.pc = "done", !.streamErr = "context canceled"]]
    /\ UNCHANGED <<dvars, provider, messages, totalCost, chatNo, cancelled, closed,
                   updates, opc, oerr, stream, nEvents, crashed, hist>>

\* llm.go:158-172: the default case switches on the status.
InnerSelectDefault(c) ==
    /\ Running /\ inner[c].pc = "select" /\ SelectDefault(Cancelled(c))
    /\ CASE inner[c].status = "Text" ->
              /\ inner' = [inner EXCEPT ![c].pc = "sendText"]
              /\ UNCHANGED <<stream, crashed>>
         [] inner[c].status = "ToolCallBegin" ->
              IF ToolboxGet(ToolCall(stream[c]).name) = "absent"
              THEN /\ crashed' = "tool not found"
                   /\ UNCHANGED <<inner, stream>>
              ELSE /\ inner' = [inner EXCEPT ![c].pc = "sendStart"]
                   /\ UNCHANGED <<stream, crashed>>
         [] inner[c].status = "ToolCallReady" ->
              /\ inner' = [inner EXCEPT ![c] =
                             [@ EXCEPT !.pc = "toolRun", !.nStatus = 0,
                                       !.call = ToolCall(stream[c])]]
              /\ UNCHANGED <<stream, crashed>>
         [] OTHER ->
              Deliver(c, inner[c], Resume(stream[c], inner[c].k, inner[c].chunk),
                      inner[c].chunk)
    /\ UNCHANGED <<dvars, provider, messages, totalCost, chatNo, cancelled, closed,
                   updates, opc, oerr, nEvents, hist>>

\* llm.go:161: the caller receives the TextUpdate.
InnerSendText(c) ==
    /\ Running /\ inner[c].pc = "sendText" /\ ~Closed(c)
    /\ updates' = Append(updates, TextUpdate(Text(stream[c])))
    /\ Deliver(c, inner[c], Resume(stream[c], inner[c].k, inner[c].chunk),
               inner[c].chunk)
    /\ UNCHANGED <<dvars, provider, messages, totalCost, chatNo, cancelled, closed,
                   opc, oerr, nEvents, hist>>

\* llm.go:168: the caller receives the ToolStartUpdate.
InnerSendStart(c) ==
    /\ Running /\ inner[c].pc = "sendStart" /\ ~Closed(c)
    /\ updates' = Append(updates, ToolStartUpdate(ToolboxGet(ToolCall(stream[c]).name)))
    /\ Deliver(c, inner[c], Resume(stream[c], inner[c].k, inner[c].chunk),
               inner[c].chunk)
    /\ UNCHANGED <<dvars, provider, messages, totalCost, chatNo, cancelled, closed,
                   opc, oerr, nEvents, hist>>

\* Mutant: the status callback of a call fires after the call's ToolDone.
InnerToolStatus_Detached(c) ==
    /\ Running /\ inner[c].pc = "scan" /\ ~Closed(c)
    /\ inner[c].toolMessages # <<>> /\ inner[c].nStatus < MaxToolStatus
    /\ updates' = Append(updates, ToolStatusUpdate(ToolboxGet("search")))
    /\ inner' = [inner EXCEPT ![c].nStatus = @ + 1]
    /\ UNCHANGED <<dvars, provider, messages, totalCost, chatNo, cancelled, closed,
                   opc, oerr, stream, nEvents, crashed, hist>>

\* llm.go:218-220: the running tool reports a status through the runner's
\* callback and the caller receives the ToolStatusUpdate.
InnerToolStatus(c) ==
    /\ Running /\ inner[c].pc = "toolRun" /\ ~Closed(c)
    /\ inner[c].nStatus < MaxToolStatus
    /\ updates' = Append(updates, ToolStatusUpdate(ToolboxGet(inner[c].call.name)))
    /\ inner' = [inner EXCEPT ![c].nStatus = @ + 1]
    /\ UNCHANGED <<dvars, provider, messages, totalCost, chatNo, cancelled, closed,
                   opc, oerr, stream, nEvents, crashed, hist>>

\* llm.go:222: toolbox.Run returns its result, with images or without.
InnerToolReturn(c) ==
    /\ Running /\ inner[c].pc = "toolRun"
    /\ \E img \in BOOLEAN :
         inner' = [inner EXCEPT ![c] = [@ EXCEPT !.pc = "sendDone", !.img = img]]
    /\ UNCHANGED <<dvars, provider, messages, totalCost, chatNo, cancelled, closed,
                   updates, opc, oerr, stream, nEvents, crashed, hist>>

\* llm.go:223-252 and 171: the caller receives the ToolDoneUpdate; the
\* messages of the result are added to toolMessages.
InnerSendDone(c) ==
    /\ Running /\ inner[c].pc = "sendDone" /\ ~Closed(c)
    /\ updates' = Append(updates, ToolDoneUpdate(ToolboxGet(inner[c].call.name)))
    /\ Deliver(c,
               [inner[c] EXCEPT !.toolMessages =
                   @ \o RunToolCallMessages(inner[c].call, inner[c].img),
                   !.call = NoCall, !.nStatus = 0, !.img = FALSE],
               Resume(stream[c], inner[c].k, inner[c].chunk), inner[c].chunk)
    /\ UNCHANGED <<dvars, provider, messages, totalCost, chatNo, cancelled, closed,
                   opc, oerr, nEvents, hist>>

\* The inner goroutine is at a send on updateChan.
AtSend(c) == inner[c].pc \in {"sendText", "sendStart", "sendDone"}

\* A send on a closed channel panics (llm.go:161, 168, 219, 223 after 71).
InnerSendOnClosed(c) ==
    /\ Running /\ Closed(c)
    /\ AtSend(c) \/ (inner[c].pc = "toolRun" /\ inner[c].nStatus < MaxToolStatus)
    /\ crashed' = "send on closed channel"
    /\ UNCHANGED <<dvars, provider, messages, totalCost, chatNo, cancelled, closed,
                   updates, opc, oerr, inner, stream, nEvents, hist>>

Next ==
    \/ Chat
    \/ Cancel
    \/ OuterLoopCancelled
    \/ OuterStepBegin
    \/ OuterAwaitCancel
    \/ OuterAwaitDone
    \/ OuterSendError
    \/ OuterClose
    \/ \E c \in Chats : InnerScan(c)
    \/ \E c \in Chats : InnerScanEOF(c)
    \/ \E c \in Chats : InnerSelectCancelled(c)
    \/ \E c \in Chats : InnerSelectDefault(c)
    \/ \E c \in Chats : InnerSendText(c)
    \/ \E c \in Chats : InnerSendStart(c)
    \/ \E c \in Chats : InnerToolStatus(c)
    \/ \E c \in Chats : InnerToolReturn(c)
    \/ \E c \in Chats : InnerSendDone(c)
    \/ \E c \in Chats : InnerSendOnClosed(c)

Spec == Init /\ [][Next]_vars

\* The Go scheduler runs every goroutine that can run; the caller keeps
\* receiving from the Update channel, a running tool returns, and the response
\* body ends.  Nothing makes the caller cancel or start another chat call.
Fairness ==
    /\ WF_vars(OuterLoopCancelled)
    /\ WF_vars(OuterStepBegin)
    /\ WF_vars(OuterAwaitCancel)
    /\ WF_vars(OuterAwaitDone)
    /\ WF_vars(OuterSendError)
    /\ WF_vars(OuterClose)
    /\ \A c \in Chats :
          /\ WF_vars(InnerScanEOF(c))
          /\ WF_vars(InnerSelectCancelled(c))
          /\ WF_vars(InnerSelectDefault(c))
          /\ WF_vars(InnerSendText(c))
          /\ WF_vars(InnerSendStart(c))
          /\ WF_vars(InnerToolReturn(c))
          /\ WF_vars(InnerSendDone(c))
          /\ WF_vars(InnerSendOnClosed(c))

FairSpec == Spec /\ Fairness

\* ------------------------------------------------------ a decoder on its own
\* The decoders iterated by a consumer that takes every status, or breaks out
\* of the range loop, over the records a vendor may send.
DecTexts == {<<"x">>, <<"y">>}
DecArgFrags == {<<"{">>, <<"}">>}
DecUsageReports == {[inTok |-> 1, outTok |-> 2], [inTok |-> 3, outTok |-> 1]}

\* Model identifiers: a key of the pricing table, a dated variant of it, and one
\* that no key equals or prefixes.
DecProviders ==
    { [vendor |-> "openai", model |-> m] :
         m \in {<<"gpt-4o">>, <<"gpt-4o", "-2025">>, <<"my-model">>} }
    \cup { [vendor |-> "anthropic", model |-> m] :
         m \in {<<"claude-3-opus">>, <<"claude-3-opus", "-2024">>, <<"my-model">>} }

\* chatCompletionChunk (types.go:185-227): usage, or one choice with its delta
\* and finish_reason.
OpenAIRecords ==
    { [type |-> "malformed"] }
    \cup { [type |-> "usage", usage |-> u] : u \in DecUsageReports }
    \cup { [type |-> "chunk", role |-> "assistant", content |-> t, tools |-> <<>>,
            finish |-> ""] : t \in DecTexts }
    \cup { [type |-> "chunk", role |-> "", content |-> <<>>, tools |-> <<>>,
            finish |-> f] : f \in {"stop", "length"} }
    \cup { [type |-> "chunk", role |-> "", content |-> <<>>, finish |-> "",
            tools |-> <<[index |-> i, id |-> "a", name |-> "search", args |-> a]>>] :
              i \in 0..1, a \in {<<>>, <<"{">>} }
    \cup { [type |-> "chunk", role |-> "", content |-> <<>>, finish |-> "",
            tools |-> <<[index |-> i, id |-> "", name |-> "", args |-> a]>>] :
              i \in 0..1, a \in DecArgFrags }
    \cup { [type |-> "chunk", role |-> "", content |-> <<"x">>, finish |-> "",
            tools |-> <<[index |-> 0, id |-> "a", name |-> "search", args |-> <<>>]>>] }
    \cup { [type |-> "chunk", role |-> "", content |-> <<>>, finish |-> "",
            tools |-> <<[index |-> 0, id |-> "a", name |-> "search", args |-> <<>>],
                        [index |-> 1, id |-> "b", name |-> "search", args |-> <<>>]>>] }

\* streamEvent of the anthropic decoder.
AnthropicRecords ==
    { [type |-> "malformed"], [type |-> "message_stop"],
      [type |-> "content_block_stop"] }
    \cup { [type |-> "message_start", role |-> "assistant", usage |-> u] :
              u \in DecUsageReports }
    \cup { [type |-> "text_delta", text |-> t] : t \in DecTexts \cup {<<>>} }
    \cup { [type |-> "input_json_delta", partial |-> a] : a \in DecArgFrags }
    \cup { [type |-> "content_block_start", block |-> b, id |-> "a",
            name |-> "search"] : b \in {"tool_use", "text"} }
    \cup { [type |-> "message_delta", stopReason |-> r, usage |-> u] :
              r \in {"end_turn", "tool_use", "max_tokens"},
              u \in DecUsageReports }

Records(s) == IF s.vendor = "openai" THEN OpenAIRecords ELSE AnthropicRecords

\* The record carries a usage report.
HasUsage(e) == e.type \in {"usage", "message_start", "message_delta"}

\* The record carries a completion reason other than an ordinary stop or a
\* stop to call tools.
Abnormal(e) ==
    \/ e.type = "chunk" /\ e.finish \notin {"", "stop", "tool_calls"}
    \/ e.type = "message_delta" /\ e.stopReason \notin {"", "end_turn", "tool_use"}

\* The argument fragment that record e carries.
DataFrag(e) == IF e.type = "input_json_delta" THEN e.partial ELSE e.tools[1].args

\* Record e opens a tool call at an index beyond the next free one.
SkipsIndex(s, e) ==
    /\ e.type = "chunk" /\ Len(e.tools) > 0
    /\ e.tools[1].index > Len(s.toolCalls)

\* The consumer's account of record e, as scanned by decoder s.
Account(o, s, e) ==
    [o EXCEPT !.nRecords = @ + 1,
              !.abnormal = @ \/ Abnormal(e),
              !.skipped = @ \/ SkipsIndex(s, e),
              !.reports = IF HasUsage(e)
                          THEN [inTok |-> @.inTok + e.usage.inTok,
                                outTok |-> @.outTok + e.usage.outTok]
                          ELSE @]

\* The consumer's account of what the decoder did on record e: result r.
Observe(o, r, e) ==
    [o EXCEPT !.errSeen = @ \/ r.s.err # NoErr,
              !.statuses = IF r.y # "none" THEN Append(@, r.y) ELSE @,
              !.texts = IF r.y = "Text" THEN @ \o Text(r.s) ELSE @,
              !.frags = IF r.y = "ToolCallBegin" THEN <<>>
                        ELSE IF r.y = "ToolCallData" THEN @ \o DataFrag(e)
                        ELSE @]

\* Where Iter and its consumer are after result r.
Position(r, e) ==
    IF r.panic # "none"
    THEN [pc |-> "panic", status |-> "none", k |-> "ret", chunk |-> IdleIter.chunk]
    ELSE IF r.y # "none"
    THEN [pc |-> "yield", status |-> r.y, k |-> r.k, chunk |-> e]
    ELSE IF r.k = "scan"
    THEN [pc |-> "scan", status |-> "none", k |-> "scan", chunk |-> IdleIter.chunk]
    ELSE [pc |-> "ret", status |-> "none", k |-> "ret", chunk |-> IdleIter.chunk]

DecInit ==
    /\ EngineStart(DecProviders)
    /\ dec = NewStream(provider, NoErr)
    /\ iter = [IdleIter EXCEPT !.pc = "scan"]
    /\ obs = NoObs

\* Stream.Iter: scanner.Scan() returns the next record.
DecScan ==
    /\ iter.pc = "scan" /\ obs.nRecords < MaxRecords
    /\ \E e \in Records(dec) :
         LET r == Scan(dec, e) IN
         /\ dec' = r.s
         /\ iter' = Position(r, e)
         /\ obs' = Observe(Account(obs, dec, e), r, e)
    /\ UNCHANGED evars

\* Stream.Iter: scanner.Scan() returns false.
DecScanEOF ==
    /\ iter.pc = "scan"
    /\ LET r == ScanEOF(dec) IN
         /\ dec' = r.s
         /\ iter' = Position(r, iter.chunk)
         /\ obs' = Observe(obs, r, iter.chunk)
    /\ UNCHANGED evars

\* The body of the range loop has run and yield returns true.
DecYieldTrue ==
    /\ iter.pc = "yield"
    /\ LET r == Resume(dec, iter.k, iter.chunk) IN
         /\ dec' = r.s
         /\ iter' = Position(r, iter.chunk)
         /\ obs' = Observe(obs, r, iter.chunk)
    /\ UNCHANGED evars

\* The consumer breaks out of the range loop: yield returns false and Iter
\* returns.
DecYieldFalse ==
    /\ iter.pc = "yield"
    /\ iter' = [pc |-> "ret", status |-> "none", k |-> "ret", chunk |-> IdleIter.chunk]
    /\ obs' = [obs EXCEPT !.broke = TRUE]
    /\ UNCHANGED <<dec, evars>>

DecNext == DecScan \/ DecScanEOF \/ DecYieldTrue \/ DecYieldFalse

DecoderSpec == DecInit /\ [][DecNext]_vars

\* ------------------------------------------------------------------ claims
ErrorCount(us) == Len(SelectSeq(us, LAMBDA u : u.kind = "Error"))
IsTool(m) == m.role = "tool"
NotTool(m) == m.role # "tool"
Roles(ms) == [i \in 1..Len(ms) |-> ms[i].role]
IsPrefix(a, b) == Len(a) <= Len(b) /\ SubSeq(b, 1, Len(a)) = a
StepOver == opc \in {"sendErr", "closing", "idle"}

\* C1: whenever the decoder's Err() has become non-nil during the iteration
\* of a step, the outer goroutine leaves the history as it is and goes on to
\* publish an Error Update (it neither commits the turn nor loops again).
C1_DecodeErrorDiscardsStep ==
    [][(opc = "await" /\ stream[chatNo].err # NoErr)
          => (messages' = messages /\ opc' \in {"await", "sendErr"})]_vars

\* C2: when cancellation ends a step (the select of step takes ctx.Done(), or
\* it receives the completion of an inner goroutine that stopped on
\* ctx.Done()), history and running cost are what they were when the step
\* began, and the chat call publishes exactly one Error Update.
C2_CancelledStepLeavesNoTrace ==
    (oerr \in {"context canceled in step", "error streaming"} /\ StepOver)
        => /\ messages = stepHist
           /\ totalCost = stepCost
           /\ ErrorCount(updates) = (IF opc = "sendErr" THEN 0 ELSE 1)

\* C2 witness: the chat call was cancelled in a step whose turn already had
\* text and tool results, and its channel is closed.
C2_Witness ==
    /\ oerr = "context canceled in step" /\ closed
    /\ stream[chatNo].content # <<>>
    /\ inner[chatNo].toolMessages # <<>>

\* C3: the Update channel is closed once, and no task is at a send on it (or
\* has panicked in a send on it) after it was closed.
C3_NoPublishAfterClose ==
    /\ nClose <= 1
    /\ closed => ~AtSend(chatNo)
    /\ crashed # "send on closed channel"

\* C4: with the ctx already cancelled when chat is invoked, Generate is never
\* called and the caller receives one Error Update and nothing else before
\* the channel closes.
C4_PreCancelledChat ==
    preCancelled
        => /\ nGen = 0
           /\ Len(updates) <= 1
           /\ \A i \in 1..Len(updates) : updates[i].kind = "Error"
           /\ closed => Len(updates) = 1

\* C4 witness: a chat call invoked with a cancelled ctx has closed its channel.
C4_Witness ==
    preCancelled /\ closed /\ updates = <<ErrorUpdate("context canceled")>>

\* C5: when Generate returns a decoder whose Err() is non-nil, no inner
\* goroutine iterates it, history and running cost stay as they were, the
\* step is the last one and the chat call publishes one Error Update, the
\* last Update before the channel closes.
C5_SetupErrorEndsChat ==
    (chatNo > 0 /\ stream[chatNo].err = "error making request")
        => /\ StepOver
           /\ oerr = "LLM returned error response"
           /\ inner[chatNo].pc \in {"none", "exit"}
           /\ messages = stepHist
           /\ totalCost = stepCost
           /\ nGen = stepsDone + 1
           /\ ErrorCount(updates) = (IF opc = "sendErr" THEN 0 ELSE 1)
           /\ opc # "sendErr" => updates[Len(updates)].kind = "Error"

\* C5 witness: the second step of a chat call failed in Generate, and the
\* channel is closed.
C5_Witness ==
    /\ chatNo > 0 /\ stream[chatNo].err = "error making request"
    /\ closed /\ nGen = 2

\* C6 as stated: once the chat call is over, a further step was run after the
\* last step that returned without error if and only if that step executed a
\* tool call.
C6_Original ==
    (closed /\ stepsDone > 0)
        => ((nGen > stepsDone) <=> (NumToolRuns(lastBatch) > 0))

\* C6 as amended: a further step was run after the last step that returned
\* without error if and only if that step executed a tool call and the top of
\* the loop did not find the ctx cancelled; the loop is re-entered only after
\* a step that executed a tool call.
C6_ContinueIffToolsUnlessCancelled ==
    /\ (closed /\ stepsDone > 0)
          => ((nGen > stepsDone)
                 <=> (NumToolRuns(lastBatch) > 0 /\ oerr # "context canceled"))
    /\ (opc = "loop" /\ stepsDone > 0) => NumToolRuns(lastBatch) > 0
    /\ (opc = "closing" /\ oerr = NoErr) => NumToolRuns(lastBatch) = 0

\* C6 witness: a chat call of two steps, the first with a tool call and the
\* second without, has ended.
C6_Witness ==
    closed /\ oerr = NoErr /\ stepsDone = 2 /\ nGen = 2 /\ lastBatch = <<>>

\* C7: a tool call runs only once the decoder has consumed the whole response
\* (the turn is fully assembled).
C7_ToolsRunAfterIteration ==
    \A c \in Chats : inner[c].pc \in {"toolRun", "sendDone"} => inner[c].k = "ret"

\* C8: the batch appended after the assistant message is the tool-role
\* messages of the step in call order followed by its other messages in call
\* order.
C8_ToolMessagesFirst ==
    (stepsDone > 0 /\ opc # "idle")
        => LET n == Len(lastBatch)
               h == Len(messages)
           IN /\ h > n
              /\ messages[h - n].role \notin {"tool", "user"}
              /\ SubSeq(messages, h - n + 1, h)
                    = SelectSeq(lastBatch, IsTool) \o SelectSeq(lastBatch, NotTool)

\* C8 witness: two tool calls of which the first returned an image were
\* committed as tool, tool, user.
C8_Witness ==
    /\ stepsDone > 0 /\ opc # "idle"
    /\ Roles(lastBatch) = <<"tool", "user", "tool">>
    /\ lastBatch[1].toolCallID # lastBatch[3].toolCallID
    /\ Roles(SubSeq(messages, Len(messages) - 2, Len(messages)))
          = <<"tool", "tool", "user">>

C10_HistoryAppendOnly == [][IsPrefix(messages, messages')]_vars

\* C10 witness: a second chat call has committed a step on top of the history
\* of the first.
C10_Witness ==
    chatNo = 2 /\ stepsDone > 0 /\ Len(messages) >= 4

\* C11: a ToolCallBegin whose tool the registry cannot resolve does not abort
\* the process (the step is to end with an Error Update instead).
C11_UnknownToolSurfacesError == crashed # "tool not found"

\* C12: the Text() fragments the consumer took at the Text statuses, put
\* together in the order of the statuses, are the text content of Message().
C12_TextsConcatenate == obs.texts = Message(dec).content

\* C12 witness: a decoder has returned after two Text statuses with different
\* fragments.
C12_Witness == iter.pc = "ret" /\ obs.texts = <<"x", "y">>

\* C13: at its ToolCallBegin a tool call has no arguments, and at its
\* ToolCallReady its arguments are the fragments of the ToolCallData statuses
\* since its ToolCallBegin, put together.
C13_ArgsOnlyFromData ==
    /\ (iter.pc = "yield" /\ iter.status = "ToolCallBegin")
          => ToolCall(dec).args = <<>>
    /\ (iter.pc = "yield" /\ iter.status = "ToolCallReady")
          => ToolCall(dec).args = obs.frags

\* C14: Err() stays non-nil once it is, and no status is yielded when it is.
C14_ErrIsFinal ==
    /\ obs.errSeen => dec.err # NoErr
    /\ iter.pc = "yield" => dec.err = NoErr

\* C15: once a record has carried a completion reason other than an ordinary
\* stop or a stop to call tools, Err() is non-nil and Iter has returned.
C15_AbnormalFinishIsError ==
    obs.abnormal => (dec.err # NoErr /\ iter.pc = "ret")

\* C16: Usage() is the sum of the usage reports of the records scanned.
C16_UsageSumsReports == Usage(dec) = obs.reports

\* C17: CostUSD is the price of the usage under the key that equals the model
\* identifier, else under the longest key that prefixes it, and zero when no
\* key equals or prefixes it.
C17_CostLookupPolicy ==
    LET table == IF dec.vendor = "openai" THEN OpenAIPricing ELSE AnthropicPricing
        matches == {k \in DOMAIN table : IsPrefixOf(k, dec.model)}
        longest == CHOOSE k \in matches : \A j \in matches : Len(j) <= Len(k)
    IN CostUSD(dec) = (IF matches = {} THEN 0 ELSE Price(table[longest], dec))

\* No key of the vendor's pricing table equals or prefixes the model identifier.
Unrecognized(p) ==
    LET table == IF p.vendor = "openai" THEN OpenAIPricing ELSE AnthropicPricing
    IN \A k \in DOMAIN table : ~IsPrefixOf(k, p.model)

\* C18: no step of the program lowers the running cost, and with an
\* unrecognized model identifier no step of the program changes it.
C18_CostNeverDecreases ==
    [][/\ totalCost' >= totalCost
       /\ Unrecognized(provider) => totalCost' = totalCost]_vars

\* C18 witness: with an unrecognized model a step whose decoder reported
\* usage has been committed, and the running cost is zero.
C18_Witness ==
    /\ Unrecognized(provider) /\ stepsDone > 0
    /\ lastUsage.inTok > 0 /\ totalCost = 0

ToolKinds == {"ToolStart", "ToolStatus", "ToolDone"}
Kinds(us) == [i \in 1..Len(us) |-> us[i].kind]

\* C19: among the Updates of the latest step, no TextDelta comes after a
\* ToolStart, ToolStatus or ToolDone.
C19_TextBeforeTools ==
    \A i, j \in (stepMark + 1)..Len(updates) :
        (i < j /\ updates[i].kind \in ToolKinds) => updates[j].kind # "Text"

\* The Update that a step of the program publishes is of kind k.
Publishes(k) ==
    /\ Len(updates') = Len(updates) + 1
    /\ updates'[Len(updates')].kind = k

\* C20: a tool call starts to run when it becomes ready and no other call of
\* the step is running; a ToolStatus is published only for the call that is
\* running, before its ToolDone; a ToolDone ends the running call and adds
\* its result after the results of the calls that became ready before it.
C20_ToolsRunInReadyOrder ==
    [][/\ \A c \in Chats :
            (inner[c].pc # "toolRun" /\ inner'[c].pc = "toolRun")
               => /\ inner[c].status = "ToolCallReady"
                  /\ inner[c].call = NoCall
                  /\ inner'[c].call = ToolCall(stream[c])
       /\ Publishes("ToolStatus")
            => /\ inner[chatNo].pc \in {"toolRun", "sendDone"}
               /\ inner'[chatNo].pc \in {"toolRun", "sendDone"}
               /\ updates'[Len(updates')].tool = ToolboxGet(inner[chatNo].call.name)
       /\ Publishes("ToolDone")
            => LET old == inner[chatNo].toolMessages
                   now == inner'[chatNo].toolMessages
               IN /\ inner[chatNo].pc = "sendDone"
                  /\ inner'[chatNo].pc \notin {"toolRun", "sendDone"}
                  /\ updates'[Len(updates')].tool = ToolboxGet(inner[chatNo].call.name)
                  /\ IsPrefix(old, now) /\ Len(now) > Len(old)
                  /\ now[Len(old) + 1].toolCallID = CallID(inner[chatNo].call)]_vars

\* C20 witness: a step has run two tool calls, each with a status report.
C20_Witness ==
    /\ Kinds(updates) = <<"ToolStart", "ToolStatus", "ToolDone",
                          "ToolStart", "ToolStatus", "ToolDone">>
    /\ Len(inner[chatNo].toolMessages) >= 2
    /\ NumToolRuns(inner[chatNo].toolMessages) = 2
    /\ inner[chatNo].toolMessages[1].toolCallID
          # inner[chatNo].toolMessages[Len(inner[chatNo].toolMessages)].toolCallID

Count(st, y) == Len(SelectSeq(st, LAMBDA x : x = y))
ToolMarks(st) == SelectSeq(st, LAMBDA x : x \in {"ToolCallBegin", "ToolCallReady"})
Alternates(m) ==
    \A i \in 1..Len(m) :
        m[i] = (IF i % 2 = 1 THEN "ToolCallBegin" ELSE "ToolCallReady")

\* Iter has returned because the stream ended or failed, not because the
\* consumer broke out of the loop.
Finished == iter.pc = "ret" /\ ~obs.broke

\* C21: when the tool call indexes of an OpenAI stream start at 0 and go up by
\* one, the ToolCallBegin and ToolCallReady statuses alternate, beginning with
\* a ToolCallBegin, and once the stream has ended there are as many
\* ToolCallReady as ToolCallBegin, one for each tool call of the message.
C21_OneReadyPerCall ==
    (dec.vendor = "openai" /\ ~obs.skipped)
        => /\ Alternates(ToolMarks(obs.statuses))
           /\ Count(obs.statuses, "ToolCallBegin") = Len(dec.toolCalls)
           /\ Finished => Count(obs.statuses, "ToolCallReady") = Len(dec.toolCalls)

\* C21 witness: an OpenAI stream with two tool calls has ended.
C21_Witness ==
    /\ dec.vendor = "openai" /\ ~obs.skipped /\ Finished
    /\ ToolMarks(obs.statuses) = <<"ToolCallBegin", "ToolCallReady",
                                    "ToolCallBegin", "ToolCallReady">>

\* C22: at a ToolCallReady the message has a tool call, and ToolCall(), its
\* last one, is the call that this ToolCallReady is the first to close: the
\* n-th ToolCallReady finds n tool calls.
C22_ReadyCallJustClosed ==
    (iter.pc = "yield" /\ iter.status = "ToolCallReady")
        => /\ Len(dec.toolCalls) > 0
           /\ ToolCall(dec) # NoCall
           /\ Count(obs.statuses, "ToolCallReady") = Len(dec.toolCalls)

\* C23: at a Text status the fragment that Text() returns is not empty.
C23_TextIsNonEmpty ==
    (iter.pc = "yield" /\ iter.status = "Text") => Text(dec) # <<>>

\* llm.go:169-171: the engine runs one tool call at every ToolCallReady.
Executions(st) == Count(st, "ToolCallReady")

\* C26: once the iteration of a step has ended, the tool calls that were run
\* are as many as the tool calls of the finished message.
C26_EachCallRunsOnce ==
    Finished => Executions(obs.statuses) = Len(Message(dec).toolCalls)

\* C24: an Update reaches the caller only from the outer goroutine, which
\* publishes the Error Update.
C24_OnlyOuterPublishes ==
    [][Len(updates') > Len(updates) => (opc = "sendErr" /\ opc' = "closing")]_vars

\* C25: streamErr is set only by an inner goroutine that is running its loop
\* body and goes on to signal completion, and the step decides on streamErr
\* (an error, or the commit of the turn) only when it receives that signal.
C25_ErrorSlotHandedOver ==
    [][/\ \A c \in Chats :
            (inner'[c].streamErr # inner[c].streamErr /\ inner'[c].streamErr # NoErr)
               => (inner[c].pc = "select" /\ inner'[c].pc = "done")
       /\ (oerr' = "error streaming" /\ oerr # "error streaming")
            => (inner[chatNo].pc = "done" /\ inner[chatNo].streamErr # NoErr)
       /\ stepsDone' = stepsDone + 1
            => (inner[chatNo].pc = "done" /\ inner[chatNo].streamErr = NoErr)]_vars

\* C25 witness: a chat call has ended on the error that its inner goroutine
\* left in streamErr.
C25_Witness ==
    /\ oerr = "error streaming" /\ closed
    /\ updates # <<>> /\ updates[Len(updates)] = ErrorUpdate("error streaming")

\* C27: every chat call comes to close its channel, and every inner goroutine
\* that was started comes to its end (unless a panic aborts the process).
C27_EveryTaskTerminates ==
    /\ (chatNo > 0 /\ ~closed) ~> (closed \/ ~Running)
    /\ \A c \in Chats :
          (inner[c].pc \notin {"none", "exit"})
              ~> (inner[c].pc \in {"none", "exit"} \/ ~Running)

====
